---- MODULE Spec2Model ----
(***************************************************************************)
(* Model of the InvenTree Part Templates plugin                            *)
(* (src/inventree_part_templates/part_templates_plugin.py and              *)
(* property_context.py): the per-entity template metadata, the resolution  *)
(* walk part -> category -> parent categories -> default, the set_template *)
(* endpoint, the report/label context callbacks and the panel hooks.       *)
(* Further down: the template filters scrub and replace                    *)
(* (templatetags/value_filters.py, replace.py), the object inspector       *)
(* behind the explore tag (templatetags/inspect.py, explore.py) and the    *)
(* category walk taken one call at a time.  Each has its own next-state    *)
(* relation and specification over the same variables.                     *)
(*                                                                         *)
(* Python values are modelled as follows.                                  *)
(*   - A metadata blob is a record [shape, tpl].  shape names how much of  *)
(*     the nesting metadata[METADATA_PARENT][METADATA_TEMPLATE_KEY] is     *)
(*     present; tpl is the innermost dictionary key -> template.           *)
(*   - The empty string "" is Python's empty string; a lookup that yields  *)
(*     None is modelled by "" as well (both are falsy and the code only    *)
(*     tests truthiness).                                                  *)
(*   - Django's Template(...).render() is external: it either returns a    *)
(*     string or raises.  Render gives the string, RenderRaises says       *)
(*     which templates raise.                                              *)
(***************************************************************************)
EXTENDS Integers, Sequences, FiniteSets, TLC

\* ------------------------------------------------------------------ bounds

NumParts == 2
NumCats == 2
MaxWrites == 1

\* ------------------------------------------------------- program constants

MAX_TEMPLATES == 5

\* ------------------------------------------------------------------- state

VARIABLES
    settings,   \* the plugin settings: EDITING, VIEWING, T1..T5 KEY / TEMPLATE
    partMeta,   \* Part.metadata as persisted, per part pk
    catMeta,    \* PartCategory.metadata as persisted, per category pk
    writes,     \* number of instance.save() calls made so far
    last        \* the call in progress (handler, filter, tag or walk), its
                \* working state and what it returns; idle between calls

vars == <<settings, partMeta, catMeta, writes, last>>

\* ------------------------------------------------------------ the database

Parts == 1..NumParts
Cats == 1..NumCats
\* every part has one stock item
Stocks == Parts

\* StockItem.part
StockPart(s) == s

NoCategory == 0

\* PartCategory.parent: the categories form a tree, category 1 is the root
ParentOf(c) == c \div 2

\* Part.category: part 1 is uncategorised, the others sit in the deepest
\* categories
CategoryOf(p) == IF p = 1 THEN NoCategory ELSE NumCats - ((p - 2) % NumCats)

\* ---------------------------------------------------------------- metadata

EmptyDict == [k \in {} |-> ""]

\* shape is one of "None", "{}", "other" (a dictionary without the plugin's
\* entry), "parent{}", "parent_other" (the entry without 'templates') and
\* "templates"
Meta(shape, tpl) == [shape |-> shape, tpl |-> tpl]

\* `instance.metadata` is truthy
HasMetadata(m) == m.shape \notin {"None", "{}"}

\* `metadata.get(METADATA_PARENT)` is truthy
HasParent(m) == m.shape \in {"parent_other", "templates"}

\* `metadata[METADATA_PARENT].get(METADATA_TEMPLATE_KEY)` is truthy
HasTemplates(m) == m.shape = "templates" /\ DOMAIN m.tpl # {}

\* `metadata[METADATA_PARENT][METADATA_TEMPLATE_KEY].get(key)`
GetKey(m, key) == IF key \in DOMAIN m.tpl THEN m.tpl[key] ELSE ""

\* --------------------------------------------------------------- rendering

BadTemplate == "{% bad"

\* django Template(...).render(Context(...)) raises for this template
RenderRaises(template) == template = BadTemplate

\* the rendered string otherwise
Render(part, stock, template) ==
    IF template = "" THEN <<"", part, stock>> ELSE <<template, part, stock>>

NoStock == 0

\* ---------------------------------------------------------------- settings

Choices == {"superuser", "always", "never"}

\* T1_KEY..T5_KEY and T1_TEMPLATE..T5_TEMPLATE.  The first configuration is
\* the shipped default (two slots in use); the second leaves a gap, has a
\* default template that does not render and uses one key in two slots.
DefaultSlots ==
    [KEY |-> <<"description", "category", "", "", "">>,
     TEMPLATE |-> <<"d1", "d2", "", "", "">>]

GapSlots ==
    [KEY |-> <<"description", "", "category", "description", "">>,
     TEMPLATE |-> <<"d1", "d9", BadTemplate, "d4", "">>]

SlotConfigs == {DefaultSlots, GapSlots}

\* self.get_setting(f'T{n}_KEY'), self.get_setting(f'T{n}_TEMPLATE')
SettingKey(n) == settings.KEY[n]
SettingTemplate(n) == settings.TEMPLATE[n]

SlotNumbers == 1..MAX_TEMPLATES

\* ------------------------------------------------------ template resolution

RECURSIVE farthest_category_template(_, _, _, _)

\* a walk that lets the farthest ancestor win
farthest_category_template(cm, category, key, default_template) ==
    IF category = NoCategory
    THEN default_template
    ELSE LET above == farthest_category_template(cm, ParentOf(category), key, "")
         IN IF above # "" THEN above
            ELSE IF /\ HasMetadata(cm[category])
                    /\ HasParent(cm[category])
                    /\ HasTemplates(cm[category])
                    /\ GetKey(cm[category], key) # ""
                 THEN cm[category].tpl[key]
                 ELSE default_template

RECURSIVE find_category_template(_, _, _, _)

\* PartTemplatesPlugin._find_category_template; cm is the category table
find_category_template(cm, category, key, default_template) ==
    IF category = NoCategory
    THEN default_template
    ELSE IF /\ HasMetadata(cm[category])
            /\ HasParent(cm[category])
            /\ HasTemplates(cm[category])
            /\ GetKey(cm[category], key) # ""
         THEN cm[category].tpl[key]
         ELSE find_category_template(cm, ParentOf(category), key, default_template)

\* PartTemplatesPlugin._find_template; pm is the part table
find_template(pm, cm, part, key, default_template) ==
    IF /\ HasMetadata(pm[part])
       /\ HasParent(pm[part])
       /\ HasTemplates(pm[part])
       /\ GetKey(pm[part], key) # ""
    THEN pm[part].tpl[key]
    ELSE find_category_template(cm, CategoryOf(part), key, default_template)

RECURSIVE defaultless_category_template(_, _, _, _)

\* a walk that forgets the default at the root
defaultless_category_template(cm, category, key, default_template) ==
    IF category = NoCategory
    THEN ""
    ELSE IF /\ HasMetadata(cm[category])
            /\ HasParent(cm[category])
            /\ HasTemplates(cm[category])
            /\ GetKey(cm[category], key) # ""
         THEN cm[category].tpl[key]
         ELSE defaultless_category_template(cm, ParentOf(category), key,
                                            default_template)

RECURSIVE PropertyContext_find_category_template(_, _, _, _)

\* PropertyContext.find_category_template
PropertyContext_find_category_template(cm, category, key, default_template) ==
    IF category = NoCategory
    THEN default_template
    ELSE IF /\ HasMetadata(cm[category])
            /\ HasParent(cm[category])
            /\ HasTemplates(cm[category])
            /\ GetKey(cm[category], key) # ""
         THEN cm[category].tpl[key]
         ELSE PropertyContext_find_category_template(cm, ParentOf(category), key,
                                                     default_template)

NoPart == 0

\* PropertyContext._find_template; part is self._part (NoPart when None)
PropertyContext_find_template(pm, cm, part, key, default_template) ==
    IF part = NoPart
    THEN default_template
    ELSE IF /\ HasMetadata(pm[part])
            /\ HasParent(pm[part])
            /\ HasTemplates(pm[part])
            /\ GetKey(pm[part], key) # ""
         THEN pm[part].tpl[key]
         ELSE PropertyContext_find_category_template(cm, CategoryOf(part), key,
                                                     default_template)

\* ------------------------------------------------------------ set_template

\* the keys a URL can carry: <str:key> never matches the empty string
RequestKeys == {"description", "category", "bogus"}
RequestEntities == {"part", "category", "stockitem"}
RequestPks == 1..((IF NumParts > NumCats THEN NumParts ELSE NumCats) + 1)
\* request.GET.get('template'): None when the parameter is missing
NoParam == "<None>"
RequestTemplates == {NoParam, "", "tA"}

\* Part.objects.get(pk=pk) / PartCategory.objects.get(pk=pk) finds a row
Exists(entity, pk) ==
    \/ entity = "part" /\ pk \in Parts
    \/ entity = "category" /\ pk \in Cats

\* the for/else over T1_KEY..T5_KEY: the key equals one of the settings
KeyIsValid(key) == \E key_number \in SlotNumbers : key = SettingKey(key_number)

\* lines 415-421: the metadata with the nesting set up
SetUpMetadata(m) ==
    IF HasMetadata(m) /\ HasParent(m) /\ HasTemplates(m)
    THEN m
    ELSE Meta("templates", EmptyDict)

\* a store that puts the template under the wrong key
StoreUnderWrongKey(m, key, template) ==
    LET n == SetUpMetadata(m) IN
    IF template # ""
    THEN Meta("templates",
              [k \in DOMAIN n.tpl \cup {"template"} |->
                  IF k = "template" THEN template ELSE n.tpl[k]])
    ELSE IF GetKey(n, key) # ""
         THEN Meta("templates", [k \in DOMAIN n.tpl \ {key} |-> n.tpl[k]])
         ELSE m

\* a store that ignores an empty template instead of deleting the key
StoreNeverDeletes(m, key, template) ==
    LET n == SetUpMetadata(m) IN
    IF template # ""
    THEN Meta("templates",
              [k \in DOMAIN n.tpl \cup {key} |->
                  IF k = key THEN template ELSE n.tpl[k]])
    ELSE m

\* lines 424-430: what is saved, or the persisted blob when nothing is saved
StoreTemplate(m, key, template) ==
    LET n == SetUpMetadata(m) IN
    IF template # ""
    THEN Meta("templates",
              [k \in DOMAIN n.tpl \cup {key} |->
                  IF k = key THEN template ELSE n.tpl[k]])
    ELSE IF GetKey(n, key) # ""
         THEN Meta("templates", [k \in DOMAIN n.tpl \ {key} |-> n.tpl[k]])
         ELSE m

\* lines 425-430: instance.save() is called
Saves(m, key, template) ==
    template # "" \/ GetKey(SetUpMetadata(m), key) # ""

SetTemplateResponse(key, entity, pk, template) ==
    IF template = NoParam
    THEN [status |-> "error", message |-> "Missing required parameter: template"]
    ELSE IF entity \notin {"part", "category"}
    THEN [status |-> "error", message |-> "Invalid entity type"]
    ELSE IF ~Exists(entity, pk)
    THEN [status |-> "exception", message |-> "DoesNotExist"]
    ELSE IF ~KeyIsValid(key)
    THEN [status |-> "error", message |-> "Invalid key"]
    ELSE [status |-> "ok", message |-> "Template saved successfully"]

\* PartTemplatesPlugin._webapi_set_template
webapi_set_template(superuser, key, entity, pk, template) ==
    LET response == SetTemplateResponse(key, entity, pk, template)
        m == IF entity = "part" THEN partMeta[pk] ELSE catMeta[pk]
        saved == response.status = "ok" /\ Saves(m, key, template)
    IN
    /\ last.op = "idle"
    /\ saved => writes < MaxWrites
    /\ partMeta' = IF response.status = "ok" /\ entity = "part"
                   THEN [partMeta EXCEPT ![pk] = StoreTemplate(m, key, template)]
                   ELSE partMeta
    /\ catMeta' = IF response.status = "ok" /\ entity = "category"
                  THEN [catMeta EXCEPT ![pk] = StoreTemplate(m, key, template)]
                  ELSE catMeta
    /\ writes' = IF saved THEN writes + 1 ELSE writes
    /\ last' = [op |-> "set_template", superuser |-> superuser, key |-> key,
                entity |-> entity, pk |-> pk, template |-> template,
                status |-> response.status, message |-> response.message,
                saved |-> saved]
    /\ UNCHANGED settings

SetTemplate ==
    \E superuser \in BOOLEAN, key \in RequestKeys, entity \in RequestEntities,
       pk \in RequestPks, template \in RequestTemplates :
        webapi_set_template(superuser, key, entity, pk, template)

\* ------------------------------------------------- report / label context

\* what add_report_context / add_label_context may be handed
Instances ==
    [type : {"Part"}, pk : Parts] \cup [type : {"StockItem"}, pk : Stocks]
        \cup [type : {"StockLocation"}, pk : {1}]

\* PartTemplatesPlugin._cast_part
cast_part(instance) ==
    IF instance.type = "Part" THEN instance.pk
    ELSE IF instance.type = "StockItem" THEN StockPart(instance.pk)
    ELSE NoPart

\* the `stock` handed to _apply_template
StockOf(instance) == IF instance.type = "StockItem" THEN instance.pk ELSE NoStock

\* the values context[CONTEXT_KEY] can end with
ContextUnset == [kind |-> "unset", values |-> EmptyDict, key |-> "", template |-> ""]
ContextDict(values) ==
    [kind |-> "dict", values |-> values, key |-> "", template |-> ""]
ContextError(key, template) ==
    [kind |-> "error_dict", values |-> EmptyDict, key |-> key, template |-> template]
\* { 'error', message }: a set of two strings, not a dictionary
ContextSet == [kind |-> "set", values |-> EmptyDict, key |-> "", template |-> ""]

DictSet(d, key, value) ==
    [k \in DOMAIN d \cup {key} |-> IF k = key THEN value ELSE d[k]]

RECURSIVE add_context_keep_going(_, _, _, _)

\* a loop that skips a slot whose template fails and keeps the other results
add_context_keep_going(part, stock, key_number, values) ==
    IF key_number > MAX_TEMPLATES
    THEN ContextDict(values)
    ELSE LET key == SettingKey(key_number)
             default_template == SettingTemplate(key_number)
             found_template ==
                 find_template(partMeta, catMeta, part, key, default_template)
         IN IF key = "" \/ RenderRaises(found_template)
            THEN add_context_keep_going(part, stock, key_number + 1, values)
            ELSE add_context_keep_going(part, stock, key_number + 1,
                     DictSet(values, key, Render(part, stock, found_template)))

RECURSIVE add_context_loop(_, _, _, _)

\* the for loop of _add_context from slot key_number on; values is
\* context[CONTEXT_KEY] so far
add_context_loop(part, stock, key_number, values) ==
    IF key_number > MAX_TEMPLATES
    THEN ContextDict(values)
    ELSE LET key == SettingKey(key_number)
             default_template == SettingTemplate(key_number)
             found_template ==
                 find_template(partMeta, catMeta, part, key, default_template)
         IN IF key = ""
            THEN add_context_loop(part, stock, key_number + 1, values)
            ELSE IF RenderRaises(found_template)
            THEN ContextError(key, found_template)
            ELSE add_context_loop(part, stock, key_number + 1,
                     DictSet(values, key, Render(part, stock, found_template)))

\* PartTemplatesPlugin._add_context: the outcome [raised, context]
add_context(instance) ==
    LET part == cast_part(instance) IN
    IF part # NoPart
    THEN [raised |-> FALSE,
          context |-> add_context_loop(part, StockOf(instance), 1, EmptyDict)]
    ELSE \* type(instance).__type__ raises AttributeError
         [raised |-> TRUE, context |-> ContextUnset]

\* add_report_context / add_label_context
AddContext ==
    \E instance \in Instances :
        /\ last.op = "idle"
        /\ last' = [op |-> "add_context", instance |-> instance,
                    raised |-> add_context(instance).raised,
                    context |-> add_context(instance).context]
        /\ UNCHANGED <<settings, partMeta, catMeta, writes>>

\* what PropertyContext may be constructed with: a Part, a StockItem, a part
\* pk (which may match no part) or anything else
Entities ==
    Instances \cup [type : {"int"}, pk : 1..(NumParts + 1)]

\* PropertyContext._cast_entity_to_part
cast_entity_to_part(entity) ==
    IF entity.type = "Part" THEN entity.pk
    ELSE IF entity.type = "StockItem" THEN StockPart(entity.pk)
    ELSE IF entity.type = "int"
    THEN (IF entity.pk \in Parts THEN entity.pk ELSE NoPart)
    ELSE NoPart

RECURSIVE get_context_loop(_, _, _, _)

\* the for loop of PropertyContext.get_context from slot key_number on
get_context_loop(part, stock, key_number, values) ==
    IF key_number > MAX_TEMPLATES
    THEN ContextDict(values)
    ELSE LET key == SettingKey(key_number)
             default_template == SettingTemplate(key_number)
             found_template ==
                 PropertyContext_find_template(partMeta, catMeta, part, key,
                                               default_template)
         IN IF key = ""
            THEN get_context_loop(part, stock, key_number + 1, values)
            ELSE IF RenderRaises(found_template)
            THEN ContextError(key, found_template)
            ELSE get_context_loop(part, stock, key_number + 1,
                     DictSet(values, key, Render(part, stock, found_template)))

\* PropertyContext(entity).get_context(context, plugin)
get_context(entity) ==
    LET part == cast_entity_to_part(entity) IN
    IF part # NoPart
    THEN [raised |-> FALSE,
          context |-> get_context_loop(part, StockOf(entity), 1, EmptyDict)]
    ELSE IF entity.type = "int"
    THEN [raised |-> FALSE, context |-> ContextSet]
    ELSE \* type(self._entity).__type__ raises AttributeError
         [raised |-> TRUE, context |-> ContextUnset]

GetContext ==
    \E entity \in Entities :
        /\ last.op = "idle"
        /\ last' = [op |-> "get_context", instance |-> entity,
                    raised |-> get_context(entity).raised,
                    context |-> get_context(entity).context]
        /\ UNCHANGED <<settings, partMeta, catMeta, writes>>

\* ------------------------------------------------------------------- panel

\* the detail views the panel hooks are called on, with the pk of
\* view.get_object(); BuildDetail stands for every other view
Views ==
    [type : {"PartDetail"}, pk : Parts] \cup [type : {"CategoryDetail"}, pk : Cats]
        \cup [type : {"StockItemDetail"}, pk : Stocks]
        \cup [type : {"BuildDetail"}, pk : {1}]

\* PartTemplatesPlugin._may_edit_panel
may_edit_panel(superuser, view) ==
    IF settings.EDITING = "never" THEN FALSE
    ELSE IF settings.EDITING = "superuser" /\ ~superuser THEN FALSE
    ELSE IF view.type \notin {"PartDetail", "CategoryDetail"} THEN FALSE
    ELSE TRUE

\* a viewing check made on the views of the editing check
may_view_on_edit_views(superuser, view) ==
    IF settings.VIEWING = "never" THEN FALSE
    ELSE IF settings.VIEWING = "superuser" /\ ~superuser THEN FALSE
    ELSE IF view.type \notin {"PartDetail", "CategoryDetail"} THEN FALSE
    ELSE TRUE

\* PartTemplatesPlugin._may_view_panel
may_view_panel(superuser, view) ==
    IF settings.VIEWING = "never" THEN FALSE
    ELSE IF settings.VIEWING = "superuser" /\ ~superuser THEN FALSE
    ELSE IF view.type \notin {"PartDetail", "StockItemDetail"} THEN FALSE
    ELSE TRUE

NotRendered == <<>>
RenderError == <<"(error)">>

\* the instance's metadata: a stock item carries none here
InstanceMeta(view) ==
    IF view.type = "PartDetail" THEN partMeta[view.pk]
    ELSE IF view.type = "CategoryDetail" THEN catMeta[view.pk]
    ELSE Meta("None", EmptyDict)

\* `instance.category if isinstance(instance, Part) else instance.parent`;
\* a stock item has no parent item here
InstanceParent(view) ==
    IF view.type = "PartDetail" THEN CategoryOf(view.pk)
    ELSE IF view.type = "CategoryDetail" THEN ParentOf(view.pk)
    ELSE NoCategory

\* one pass of the loop of _get_panel_context: the entry for slot key_number
PanelEntry(view, key_number) ==
    LET key == SettingKey(key_number)
        default_template == SettingTemplate(key_number)
        m == InstanceMeta(view)
        metadata_templates ==
            IF HasMetadata(m) /\ HasParent(m) /\ HasTemplates(m)
            THEN m.tpl ELSE EmptyDict
        template ==
            IF key \in DOMAIN metadata_templates
            THEN metadata_templates[key] ELSE ""
        inherited_template ==
            find_category_template(catMeta, InstanceParent(view), key,
                                   default_template)
        used == IF template # "" THEN template ELSE inherited_template
        rendered_template ==
            IF view.type # "PartDetail" THEN NotRendered
            ELSE IF RenderRaises(used) THEN RenderError
            ELSE Render(view.pk, NoStock, used)
    IN [key |-> key, template |-> template,
        inherited_template |-> inherited_template,
        rendered_template |-> rendered_template,
        entity |-> IF view.type = "PartDetail" THEN "part" ELSE "category",
        pk |-> view.pk]

RECURSIVE panel_context_loop(_, _)

\* PartTemplatesPlugin._get_panel_context: entries of the slots from
\* key_number on that have a key
panel_context_loop(view, key_number) ==
    IF key_number > MAX_TEMPLATES
    THEN <<>>
    ELSE IF SettingKey(key_number) # ""
    THEN <<PanelEntry(view, key_number)>> \o panel_context_loop(view, key_number + 1)
    ELSE panel_context_loop(view, key_number + 1)

\* PartTemplatesPlugin.get_panel_context: what it adds to ctx
get_panel_context(superuser, view) ==
    IF ~may_edit_panel(superuser, view) /\ ~may_view_panel(superuser, view)
    THEN [added |-> FALSE, part_templates |-> <<>>,
          may_edit |-> FALSE, may_view |-> FALSE]
    ELSE [added |-> TRUE, part_templates |-> panel_context_loop(view, 1),
          may_edit |-> may_edit_panel(superuser, view),
          may_view |-> may_view_panel(superuser, view)]

\* PartTemplatesPlugin.get_custom_panels: the titles of the panels returned
get_custom_panels(superuser, view) ==
    IF ~may_edit_panel(superuser, view) /\ ~may_view_panel(superuser, view)
    THEN <<>>
    ELSE <<"Part Templates">>

GetPanelContext ==
    \E superuser \in BOOLEAN, view \in Views :
        /\ last.op = "idle"
        /\ last' = [op |-> "get_panel_context", superuser |-> superuser,
                    view |-> view, ctx |-> get_panel_context(superuser, view)]
        /\ UNCHANGED <<settings, partMeta, catMeta, writes>>

GetCustomPanels ==
    \E superuser \in BOOLEAN, view \in Views :
        /\ last.op = "idle"
        /\ last' = [op |-> "get_custom_panels", superuser |-> superuser,
                    view |-> view, panels |-> get_custom_panels(superuser, view)]
        /\ UNCHANGED <<settings, partMeta, catMeta, writes>>

\* ----------------------------------------------------------- initial state

\* the metadata blobs entities start with: absent, empty, templates stored,
\* foreign content only, partial nesting, and an empty string stored
InitBlobs ==
    << Meta("None", EmptyDict),
       Meta("{}", EmptyDict),
       Meta("templates", [k \in {"description"} |-> "tB"]),
       Meta("templates", [k \in {"description", "category"} |->
                             IF k = "description" THEN BadTemplate ELSE "tB"]),
       Meta("other", EmptyDict),
       Meta("parent{}", EmptyDict),
       Meta("parent_other", EmptyDict),
       Meta("templates", [k \in {"description"} |-> ""]) >>

\* entity number i (parts first, then categories) starts with the blob
\* offset places further on, so that every entity meets every blob
InitBlob(i, offset) == InitBlobs[((i + offset) % Len(InitBlobs)) + 1]

InitDatabase(offset) ==
    /\ partMeta = [p \in Parts |-> InitBlob(p - 1, offset)]
    /\ catMeta = [c \in Cats |-> InitBlob(NumParts + c - 1, offset)]
    /\ writes = 0
    /\ last = [op |-> "idle"]

\* the shipped EDITING and VIEWING, either slot configuration, any database
Init ==
    /\ \E slots \in SlotConfigs :
          settings = [EDITING |-> "superuser", VIEWING |-> "superuser",
                      KEY |-> slots.KEY, TEMPLATE |-> slots.TEMPLATE]
    /\ \E offset \in 0..(Len(InitBlobs) - 1) : InitDatabase(offset)

\* every EDITING and VIEWING, the shipped slots, one database
InitAccess ==
    /\ \E e \in Choices, v \in Choices :
          settings = [EDITING |-> e, VIEWING |-> v,
                      KEY |-> DefaultSlots.KEY, TEMPLATE |-> DefaultSlots.TEMPLATE]
    /\ InitDatabase(1)

\* the call returns to the host, which makes one call at a time
Return ==
    /\ last.op # "idle"
    /\ last' = [op |-> "idle"]
    /\ UNCHANGED <<settings, partMeta, catMeta, writes>>

Next ==
    \/ SetTemplate
    \/ AddContext
    \/ GetContext
    \/ GetPanelContext
    \/ GetCustomPanels
    \/ Return

Spec == Init /\ [][Next]_vars

SpecAccess == InitAccess /\ [][Next]_vars

\* ============================================================ value filters
\*
\* The template filters scrub and replace
\* (src/inventree_template_pro/templatetags/value_filters.py and replace.py;
\* src/inventree_part_templates/templatetags/part_templates.py holds the same
\* code).  A Python string is a sequence of one-character strings; the six
\* characters "regex:" are one element, RegexPrefix.  A call that raises has
\* the result Raised(exception).

MaxLen == 2
MaxRules == 2
MaxArg == 4

RegexPrefix == "regex:"

\* all strings of at most n characters of alphabet
StringsOver(alphabet, n) == UNION {[1..k -> alphabet] : k \in 0..n}

\* the values handed to the filters
ScrubStrings == StringsOver({"a", "b"}, MaxLen)
ReplaceSources == StringsOver({"a", "|"}, MaxLen)
ReplaceArgs == StringsOver({"a", "|", "\\", RegexPrefix}, MaxArg)

Raised(exception) == <<"raise", exception>>

\* a translated message "[text args]"
Message(text, args) == <<"[", text>> \o args \o <<"]">>

\* ---- Python library functions

\* str.startswith
startswith(string, prefix) ==
    /\ Len(string) >= Len(prefix)
    /\ SubSeq(string, 1, Len(prefix)) = prefix

\* str.replace(old, new): the leftmost occurrences that do not overlap; an
\* empty old matches before every character and at the end
RECURSIVE str_replace(_, _, _)
str_replace(string, old, new) ==
    IF old = <<>>
      THEN new \o (IF string = <<>> THEN <<>>
                   ELSE <<Head(string)>> \o str_replace(Tail(string), old, new))
    ELSE IF Len(string) < Len(old) THEN string
    ELSE IF startswith(string, old)
      THEN new \o str_replace(SubSeq(string, Len(old) + 1, Len(string)), old, new)
    ELSE <<Head(string)>> \o str_replace(Tail(string), old, new)

\* html.escape: & < > and the quotes become entities
html_escape(string) ==
    [i \in 1..Len(string) |->
        CASE string[i] = "&" -> "&amp;"
          [] string[i] = "<" -> "&lt;"
          [] string[i] = ">" -> "&gt;"
          [] string[i] = "\"" -> "&quot;"
          [] string[i] = "'" -> "&#x27;"
          [] OTHER -> string[i]]

\* re.split(r'(?<!\\)\|', arg): cut at every "|" whose left neighbour is not
\* a backslash; i is the position looked at, part what the current part
\* holds so far
RECURSIVE re_split_pipes(_, _, _)
re_split_pipes(arg, i, part) ==
    IF i > Len(arg) THEN <<part>>
    ELSE IF arg[i] = "|" /\ (i = 1 \/ arg[i - 1] # "\\")
      THEN <<part>> \o re_split_pipes(arg, i + 1, <<>>)
    ELSE re_split_pipes(arg, i + 1, Append(part, arg[i]))

\* the regular expressions re refuses to compile: an unclosed group, a
\* backslash that escapes nothing
re_error(pattern) ==
    \/ \E i \in 1..Len(pattern) : pattern[i] = "("
    \/ /\ pattern # <<>>
       /\ pattern[Len(pattern)] = "\\"
       /\ (Len(pattern) = 1 \/ pattern[Len(pattern) - 1] # "\\")

\* the patterns and replacements without any regex syntax
IsLiteral(string) ==
    \A i \in 1..Len(string) : string[i] \notin {"|", "\\", "("}

\* re.sub(pattern, repl, string) where re_error(pattern) is false: a pattern
\* of literal characters is replaced wherever it occurs; any other pattern is
\* left to the regex engine, whose answer is kept as the call itself
re_sub(pattern, repl, string) ==
    IF pattern # <<>> /\ IsLiteral(pattern) /\ IsLiteral(repl)
      THEN str_replace(string, pattern, repl)
      ELSE <<"re.sub">> \o pattern \o <<",">> \o repl \o <<",">> \o string

\* ---- scrub

GlobalName == "_GLOBAL"

\* a yaml rule is a dictionary; rule.get(k) is None when k is not in it
Rule(pattern, replacement) == [pattern |-> pattern, replacement |-> replacement]
RuleWithoutPattern(replacement) == [replacement |-> replacement]
RuleWithoutReplacement(pattern) == [pattern |-> pattern]

\* the rules the configuration files are written with
NameRulePool ==
    { Rule(<<"a">>, <<"b">>), Rule(<<"b">>, <<"a">>),
      RuleWithoutPattern(<<"b">>), RuleWithoutReplacement(<<"a">>),
      Rule(<<"(">>, <<"a">>) }
GlobalRulePool ==
    { Rule(<<"b">>, <<"a", "a">>), Rule(<<"a">>, <<>>), Rule(<<"(">>, <<"a">>) }

RuleLists(pool) == StringsOver(pool, MaxRules)

\* the 'filters' dictionary: rule set name -> list of rules
FiltersDict(has_f, f_rules, has_global, global_rules) ==
    [n \in (IF has_f THEN {"f"} ELSE {}) \cup
           (IF has_global THEN {GlobalName} ELSE {}) |->
        IF n = "f" THEN f_rules ELSE global_rules]

NoFilters == FiltersDict(FALSE, <<>>, FALSE, <<>>)

\* what the configuration file holds.  kind is "missing", "unreadable",
\* "yaml_error", "empty" (yaml gives None), "list" (yaml gives no dictionary)
\* or "dict"; for a dictionary, has_filters says whether it has the key
\* 'filters' and filters is that value
ConfigFile(kind, has_filters, filters) ==
    [kind |-> kind, has_filters |-> has_filters, filters |-> filters]

FaultyFiles ==
    { ConfigFile(k, FALSE, NoFilters) :
        k \in {"missing", "unreadable", "yaml_error", "empty", "list", "dict"} }

\* the cache entry 'template-pro-yaml': absent, or a dictionary loaded up
\* to CACHE_TIMEOUT seconds ago
CacheMiss == ConfigFile("None", FALSE, NoFilters)
CacheHit == ConfigFile("dict", TRUE,
                FiltersDict(TRUE, <<Rule(<<"b">>, <<"a">>)>>, FALSE, <<>>))

\* Python's truth of a cached value: None is false, a loaded dictionary true
Truthy(cached) == cached.kind = "dict"

\* load_filters(): the configuration, or the exception raised, and the cache
\* entry afterwards
load_filters(cached, file) ==
    IF Truthy(cached)
      THEN [raised |-> "", config |-> cached, cache |-> cached]
    ELSE IF file.kind \in {"missing", "empty", "list"}
      THEN [raised |-> "FileNotFoundError", config |-> file, cache |-> cached]
    ELSE IF file.kind = "unreadable"
      THEN [raised |-> "PermissionError", config |-> file, cache |-> cached]
    ELSE IF file.kind = "yaml_error"
      THEN [raised |-> "YAMLError", config |-> file, cache |-> cached]
    ELSE [raised |-> "", config |-> file, cache |-> file]

\* a rule loop that applies the rules last to first
RECURSIVE scrub_rules_backwards(_, _, _, _)
scrub_rules_backwards(rules, rule_set, scrub_string, i) ==
    IF i > Len(rules) THEN [returns |-> FALSE, value |-> scrub_string]
    ELSE LET rule == rules[Len(rules) + 1 - i] IN
         IF "pattern" \notin DOMAIN rule
           THEN [returns |-> TRUE,
                 value |-> Message("\"pattern\" not found in", <<rule_set>>)]
         ELSE IF "replacement" \notin DOMAIN rule
           THEN [returns |-> TRUE,
                 value |-> Message("\"replacement\" not found in", <<rule_set>>)]
         ELSE IF re_error(rule.pattern)
           THEN [returns |-> TRUE,
                 value |-> Message("regex error on", <<rule_set>> \o rule.pattern)]
         ELSE scrub_rules_backwards(rules, rule_set,
                  re_sub(rule.pattern, rule.replacement, scrub_string), i + 1)

\* a rule loop that steps over a faulty rule
RECURSIVE scrub_rules_skip_faulty(_, _, _, _)
scrub_rules_skip_faulty(rules, rule_set, scrub_string, i) ==
    IF i > Len(rules) THEN [returns |-> FALSE, value |-> scrub_string]
    ELSE LET rule == rules[i] IN
         IF \/ "pattern" \notin DOMAIN rule
            \/ "replacement" \notin DOMAIN rule
            \/ re_error(rule.pattern)
           THEN scrub_rules_skip_faulty(rules, rule_set, scrub_string, i + 1)
         ELSE scrub_rules_skip_faulty(rules, rule_set,
                  re_sub(rule.pattern, rule.replacement, scrub_string), i + 1)

\* the loop "for rule in rules" from rule number i on; rule_set is the name
\* the messages give.  returns says that scrub returns value at once;
\* otherwise value is scrub_string after the loop
RECURSIVE scrub_rules(_, _, _, _)
scrub_rules(rules, rule_set, scrub_string, i) ==
    IF i > Len(rules) THEN [returns |-> FALSE, value |-> scrub_string]
    ELSE LET rule == rules[i] IN
         IF "pattern" \notin DOMAIN rule
           THEN [returns |-> TRUE,
                 value |-> Message("\"pattern\" not found in", <<rule_set>>)]
         ELSE IF "replacement" \notin DOMAIN rule
           THEN [returns |-> TRUE,
                 value |-> Message("\"replacement\" not found in", <<rule_set>>)]
         ELSE IF re_error(rule.pattern)
           THEN [returns |-> TRUE,
                 value |-> Message("regex error on", <<rule_set>> \o rule.pattern)]
         ELSE scrub_rules(rules, rule_set,
                  re_sub(rule.pattern, rule.replacement, scrub_string), i + 1)

\* scrub(scrub_string, name) with the cache entry and the file it meets
scrub(scrub_string, name, cached, file) ==
    IF name = "" THEN Message("scrub missing required :name", <<>>)
    ELSE
    LET loaded == load_filters(cached, file)
        config == loaded.config
    IN
    IF loaded.raised = "FileNotFoundError"
      THEN Message("\"template_pro.yaml\" not found or invalid:", <<file.kind>>)
    ELSE IF loaded.raised = "YAMLError"
      THEN Message("Error in configuration file:", <<file.kind>>)
    ELSE IF loaded.raised # "" THEN Raised(loaded.raised)
    ELSE IF ~config.has_filters
      THEN Message("\"filters\" not found in \"parts_templates.yaml\"", <<>>)
    ELSE IF name \notin DOMAIN config.filters THEN scrub_string
    ELSE
    LET own == scrub_rules(config.filters[name], name, scrub_string, 1) IN
    IF own.returns THEN own.value
    ELSE IF GlobalName \notin DOMAIN config.filters THEN own.value
    ELSE scrub_rules(config.filters[GlobalName], GlobalName, own.value, 1).value

ScrubNames == {"", "f", "g", GlobalName}

\* one use of the scrub filter in a template
Scrub ==
    /\ last.op = "idle"
    /\ \E scrub_string \in ScrubStrings, name \in ScrubNames,
          cached \in {CacheMiss, CacheHit},
          has_f \in BOOLEAN, has_global \in BOOLEAN,
          f_rules \in RuleLists(NameRulePool),
          global_rules \in RuleLists(GlobalRulePool) :
          /\ has_f \/ f_rules = <<>>
          /\ has_global \/ global_rules = <<>>
          /\ cached = CacheMiss \/ (f_rules = <<>> /\ global_rules = <<>>)
          /\ \E file \in FaultyFiles \cup
                     {ConfigFile("dict", TRUE,
                          FiltersDict(has_f, f_rules, has_global, global_rules))} :
                /\ file \in FaultyFiles =>
                      ~has_f /\ ~has_global
                /\ last' = [op |-> "scrub", scrub_string |-> scrub_string,
                            name |-> name, cached |-> cached, file |-> file,
                            cache |-> load_filters(cached, file).cache,
                            result |-> scrub(scrub_string, name, cached, file)]
    /\ UNCHANGED <<settings, partMeta, catMeta, writes>>

\* ---- replace

\* a replace that cuts at every "|", escaped or not
replace_cuts_every_pipe(source, arg) ==
    LET parts == re_split_pipes(str_replace(arg, <<"\\">>, <<>>), 1, <<>>) IN
    IF Len(parts) # 2
      THEN Message("replace: must have two parameters separated by \"|\"",
                   html_escape(arg))
    ELSE IF startswith(parts[1], <<RegexPrefix>>)
      THEN IF re_error(Tail(parts[1])) THEN Raised("re.error")
           ELSE re_sub(Tail(parts[1]), parts[2], source)
    ELSE str_replace(source, parts[1], parts[2])

\* replace(source, arg)
replace(source, arg) ==
    LET split == re_split_pipes(arg, 1, <<>>)
        parts == [i \in 1..Len(split) |->
                     str_replace(split[i], <<"\\", "|">>, <<"|">>)]
    IN
    IF Len(parts) # 2
      THEN Message("replace: must have two parameters separated by \"|\"",
                   html_escape(arg))
    ELSE IF startswith(parts[1], <<RegexPrefix>>)
      THEN IF re_error(Tail(parts[1])) THEN Raised("re.error")
           ELSE re_sub(Tail(parts[1]), parts[2], source)
    ELSE str_replace(source, parts[1], parts[2])

\* one use of the replace filter in a template
Replace ==
    /\ last.op = "idle"
    /\ \E source \in ReplaceSources, arg \in ReplaceArgs :
          last' = [op |-> "replace", source |-> source, arg |-> arg,
                   result |-> replace(source, arg)]
    /\ UNCHANGED <<settings, partMeta, catMeta, writes>>

\* the filters are used on a database that no call changes
InitFilters ==
    /\ settings = [EDITING |-> "superuser", VIEWING |-> "superuser",
                   KEY |-> DefaultSlots.KEY, TEMPLATE |-> DefaultSlots.TEMPLATE]
    /\ InitDatabase(0)

NextFilters ==
    \/ Scrub
    \/ Replace
    \/ Return

SpecFilters == InitFilters /\ [][NextFilters]_vars

\* ============================================================ the inspector
\*
\* The explore tag and its InspectionManager
\* (src/inventree_template_pro/templatetags/explore.py,
\* src/inventree_part_templates/templatetags/inspect.py).  The objects being
\* explored are numbered 1..NumObjs, and the number is the object's id();
\* None and a str are values without identity that matters.  The tree is
\* built by nested constructor calls: the model keeps the nodes made so far,
\* the open constructors as a stack of frames, and takes one step per turn
\* of a constructor's loop and one per constructor that returns.

NumObjs == 3
MaxMembers == 3
MaxDepth == 2
MaxItems == 2

Objs == 1..NumObjs
NoneRef == 0
StrRef == NumObjs + 1
Refs == Objs \cup {NoneRef, StrRef}

\* the object that explore is given
ExploredObj == 1

\* the types the inspector tells apart
KindOrder == <<"dict", "class", "list", "method", "queryset", "set">>

\* the type of a value; kinds says which type object 1 has, the types of
\* the others follow in KindOrder
KindOf(kinds, ref) ==
    IF ref = NoneRef THEN "None"
    ELSE IF ref = StrRef THEN "str"
    ELSE KindOrder[((ref + kinds) % Len(KindOrder)) + 1]

NextObj(obj) == (obj % NumObjs) + 1

\* how an object refers to others: its j-th member
PatternOrder == <<"next", "self", "fan", "leaves", "mixed">>
Member(pattern, obj, j) ==
    CASE pattern = "next" -> NextObj(obj)
      [] pattern = "self" -> obj
      [] pattern = "fan" -> ((obj + j - 1) % NumObjs) + 1
      [] pattern = "leaves" -> IF j % 2 = 1 THEN NoneRef ELSE StrRef
      [] OTHER -> IF j % 2 = 1 THEN NextObj(obj) ELSE NoneRef

\* the pattern of obj: object 1 has pattern number first; with twist the
\* others follow in PatternOrder, without they have the same
PatternOf(first, twist, obj) ==
    PatternOrder[((first + (IF twist THEN obj - 1 ELSE 0)) % Len(PatternOrder)) + 1]

\* what a container of a type can hold: a set only hashable values, a query
\* set rows, dictionaries or plain values
MayHold(kinds, kind, ref) ==
    CASE kind = "set" -> KindOf(kinds, ref) \notin {"dict", "list", "set"}
      [] kind = "queryset" -> KindOf(kinds, ref) \in {"class", "dict", "None", "str"}
      [] kind = "method" -> FALSE
      [] OTHER -> TRUE

\* the members of obj: its items, elements, rows or the attributes that
\* InspectClass does not leave out for their name or their type; a set
\* holds a value once
Members(kinds, first, twist, count, obj) ==
    LET kind == KindOf(kinds, obj)
        raw == [j \in 1..count |-> Member(PatternOf(first, twist, obj), obj, j)]
        keep == {j \in 1..count :
                    /\ MayHold(kinds, kind, raw[j])
                    /\ kind = "set" => \A i \in 1..(j - 1) : raw[i] # raw[j]}
    IN [n \in 1..Cardinality(keep) |->
           raw[CHOOSE j \in keep : Cardinality({i \in keep : i < j}) = n - 1]]

Heap(kinds, first, twist, count) ==
    [obj \in Objs |-> [kind |-> KindOf(kinds, obj),
                       members |-> Members(kinds, first, twist, count, obj)]]

\* ---- inspect.py

\* isinstance(obj, WHITELIST_USE_SIMPLE_TYPE) or obj is None
IsSimple(ref) == ref \in {NoneRef, StrRef}

IsMethod(heap, ref) == ref \in Objs /\ heap[ref].kind = "method"

\* the InspectBase subclass inspect_factory picks
InspectClassOf(heap, ref) ==
    IF IsSimple(ref) THEN "InspectSimpleType"
    ELSE CASE heap[ref].kind = "method" -> "InspectMethod"
           [] heap[ref].kind = "dict" -> "InspectDict"
           [] heap[ref].kind = "set" -> "InspectSet"
           [] heap[ref].kind = "list" -> "InspectList"
           [] heap[ref].kind = "queryset" -> "InspectQuerySet"
           [] OTHER -> "InspectClass"

\* the classes whose constructor loops over members
LoopingClasses ==
    {"InspectDict", "InspectSet", "InspectList", "InspectQuerySet", "InspectClass"}

Min(a, b) == IF a < b THEN a ELSE b

\* an inspect_factory that hands its depth on undiminished
inspect_factory_same_depth(heap, options, obj, depth) ==
    LET cls == InspectClassOf(heap, obj)
        members == IF obj \in Objs THEN heap[obj].members ELSE <<>>
    IN [raised |-> depth <= 0,
        node |-> [cls |-> cls, obj |-> obj, depth |-> depth,
                  children |-> <<>>,
                  total_items |-> IF cls = "InspectQuerySet" THEN Len(members) ELSE 0],
        items |-> IF cls = "InspectQuerySet"
                    THEN (IF Len(members) > 0 /\ depth > 0
                            THEN SubSeq(members, 1, Min(options.lists, Len(members)))
                            ELSE <<>>)
                  ELSE IF cls \in LoopingClasses THEN members
                  ELSE <<>>]

\* inspect_factory(name, obj, depth): the node as its constructor first
\* sets it up, at depth - 1, and the items its constructor will loop over
inspect_factory(heap, options, obj, depth) ==
    LET cls == InspectClassOf(heap, obj)
        members == IF obj \in Objs THEN heap[obj].members ELSE <<>>
    IN [raised |-> depth <= 0,
        node |-> [cls |-> cls, obj |-> obj, depth |-> depth - 1,
                  children |-> <<>>,
                  total_items |-> IF cls = "InspectQuerySet" THEN Len(members) ELSE 0],
        items |-> IF cls = "InspectQuerySet"
                    THEN (IF Len(members) > 0 /\ depth - 1 > 0
                            THEN SubSeq(members, 1, Min(options.lists, Len(members)))
                            ELSE <<>>)
                  ELSE IF cls \in LoopingClasses THEN members
                  ELSE <<>>]

\* InspectDuplicate(manager, name, value, self._depth)
InspectDuplicate(obj, depth) ==
    [cls |-> "InspectDuplicate", obj |-> obj, depth |-> depth,
     children |-> <<>>, total_items |-> 0]

\* been_seen_before(obj): its answer; the object is recorded when the
\* answer is False and the object is not simple
been_seen_before(processed, obj) == ~IsSimple(obj) /\ obj \in processed

\* _add_child leaves out methods and None when the options say so
Skipped(heap, options, value) ==
    \/ ~options.methods /\ IsMethod(heap, value)
    \/ ~options.none /\ value = NoneRef

\* a create_child that knows no item limit
create_child_unlimited(cls, depth, children, index, max_items) ==
    depth > 0

\* the create_child argument a constructor passes to _add_child; index
\* counts from 0
create_child(cls, depth, children, index, max_items) ==
    CASE cls = "InspectDict" -> depth > 0 /\ children < max_items
      [] cls \in {"InspectList", "InspectSet"} -> depth > 0 /\ index < max_items
      [] OTHER -> TRUE

\* whether the loop body calls _add_child at all: InspectClass does only
\* when depth > 0
CallsAddChild(cls, depth) == cls # "InspectClass" \/ depth > 0

\* whether the constructor counts a child that _add_child reports added
CountsChild(cls) == cls # "InspectQuerySet"

\* InspectionManager._base: the first node made
BaseNode == 1

\* a loop that never comes to its end
loop_never_finished(frame) == FALSE

\* the constructor's loop has no item left
loop_finished(frame) == frame.index > Len(frame.items)

ExploreOptions ==
    [depth : (-1)..MaxDepth, lists : 0..MaxItems,
     methods : BOOLEAN, none : BOOLEAN]

\* explore(context, obj, depth, lists, methods, ..., none) up to the call of
\* inspect_factory for the base object in InspectionManager.__init__
Explore ==
    /\ last.op = "idle"
    /\ \E options \in ExploreOptions, kinds \in 0..(Len(KindOrder) - 1),
          first \in 0..(Len(PatternOrder) - 1), twist \in BOOLEAN,
          count \in 0..MaxMembers :
          LET heap == Heap(kinds, first, twist, count)
              base == inspect_factory(heap, options, ExploredObj, options.depth + 1)
          IN last' = [op |-> "explore", heap |-> heap, options |-> options,
                      processed |-> {},
                      raised |-> base.raised,
                      nodes |-> IF base.raised THEN <<>> ELSE <<base.node>>,
                      stack |-> IF base.raised
                                  THEN <<>>
                                  ELSE <<[node |-> BaseNode, items |-> base.items,
                                          index |-> 1]>>]
    /\ UNCHANGED <<settings, partMeta, catMeta, writes>>

\* one turn of the loop of the innermost open constructor
AddChild ==
    /\ last.op = "explore"
    /\ last.stack # <<>>
    /\ LET top == Len(last.stack)
           frame == last.stack[top]
           self == last.nodes[frame.node]
       IN
       /\ frame.index <= Len(frame.items)
       /\ LET value == frame.items[frame.index]
              create == create_child(self.cls, self.depth, Len(self.children),
                                     frame.index - 1, last.options.lists)
              counted == IF CountsChild(self.cls) THEN 1 ELSE 0
              new == Len(last.nodes) + 1
              made == inspect_factory(last.heap, last.options, value, self.depth)
              step == [last EXCEPT !.stack[top].index = frame.index + 1]
          IN
          last' =
            IF ~CallsAddChild(self.cls, self.depth)
               \/ Skipped(last.heap, last.options, value)
              THEN step
            ELSE IF ~create
              THEN [step EXCEPT !.nodes[frame.node].total_items = @ + counted]
            ELSE IF been_seen_before(last.processed, value)
              THEN [step EXCEPT
                      !.nodes = Append(
                          [@ EXCEPT ![frame.node].children = Append(@, new),
                                    ![frame.node].total_items = @ + counted],
                          InspectDuplicate(value, self.depth))]
            ELSE IF made.raised
              THEN [last EXCEPT !.raised = TRUE, !.stack = <<>>,
                                !.processed = IF IsSimple(value) THEN @
                                              ELSE @ \cup {value}]
            ELSE IF made.node.cls \notin LoopingClasses
              THEN [step EXCEPT
                      !.processed = IF IsSimple(value) THEN @ ELSE @ \cup {value},
                      !.nodes = Append(
                          [@ EXCEPT ![frame.node].children = Append(@, new),
                                    ![frame.node].total_items = @ + counted],
                          made.node)]
            ELSE [last EXCEPT
                      !.processed = @ \cup {value},
                      !.nodes = Append(@, made.node),
                      !.stack = Append(@, [node |-> new, items |-> made.items,
                                           index |-> 1])]
    /\ UNCHANGED <<settings, partMeta, catMeta, writes>>

\* the innermost open constructor returns: _add_child appends the node to
\* its parent's children and the parent's loop goes on; the base node's
\* constructor returns to InspectionManager.__init__
EndInit ==
    /\ last.op = "explore"
    /\ last.stack # <<>>
    /\ LET top == Len(last.stack)
           frame == last.stack[top]
       IN
       /\ loop_finished(frame)
       /\ last' =
            IF top = 1 THEN [last EXCEPT !.stack = <<>>]
            ELSE LET below == last.stack[top - 1]
                     parent == last.nodes[below.node]
                 IN [last EXCEPT
                       !.stack = [SubSeq(@, 1, top - 1) EXCEPT
                                     ![top - 1].index = below.index + 1],
                       !.nodes[below.node].children = Append(@, frame.node),
                       !.nodes[below.node].total_items =
                           @ + (IF CountsChild(parent.cls) THEN 1 ELSE 0)]
    /\ UNCHANGED <<settings, partMeta, catMeta, writes>>

\* the tree is built (or the build raised): the tag formats it and returns,
\* and the template it stands in is rendered
ExploreReturn ==
    /\ last.op = "explore"
    /\ last.stack = <<>>
    /\ last' = [last EXCEPT !.op = "explored"]
    /\ UNCHANGED <<settings, partMeta, catMeta, writes>>

NextInspect ==
    \/ Explore
    \/ AddChild
    \/ EndInit
    \/ ExploreReturn

SpecInspect == InitFilters /\ [][NextInspect]_vars

\* a tag that has started keeps running: every step of it that can be taken
\* is taken
SpecInspectFair ==
    SpecInspect /\ WF_vars(AddChild) /\ WF_vars(EndInit) /\ WF_vars(ExploreReturn)

\* ======================================================== the category walk
\*
\* _find_template and the recursion of _find_category_template, one call of
\* the latter per step (part_templates_plugin.py 533-576; property_context.py
\* 172-197 is the same recursion).

WalkKeys == {"description", "category", "bogus"}
WalkDefaults == {"d1", ""}

\* a walk that calls itself with the same category again
walk_stays(category) == category

\* the argument of the recursive call: category.parent
walk_up(category) == ParentOf(category)

\* _find_template(part, key, default_template) up to its return or its call
\* of _find_category_template(part.category, ...)
FindTemplate ==
    /\ last.op = "idle"
    /\ \E part \in Parts, key \in WalkKeys, default_template \in WalkDefaults :
          last' =
            IF /\ HasMetadata(partMeta[part])
               /\ HasParent(partMeta[part])
               /\ HasTemplates(partMeta[part])
               /\ GetKey(partMeta[part], key) # ""
              THEN [op |-> "found", part |-> part, key |-> key,
                    default_template |-> default_template,
                    category |-> CategoryOf(part), calls |-> 0,
                    examined |-> <<>>, result |-> partMeta[part].tpl[key]]
              ELSE [op |-> "find_category_template", part |-> part, key |-> key,
                    default_template |-> default_template,
                    category |-> CategoryOf(part), calls |-> 0,
                    examined |-> <<>>, result |-> ""]
    /\ UNCHANGED <<settings, partMeta, catMeta, writes>>

\* one call of _find_category_template(category, key, default_template): it
\* returns the default, returns the category's template, or calls itself
\* for the parent
FindCategoryTemplate ==
    /\ last.op = "find_category_template"
    /\ last' =
         IF last.category = NoCategory
           THEN [last EXCEPT !.op = "found", !.calls = @ + 1,
                             !.result = last.default_template]
         ELSE IF /\ HasMetadata(catMeta[last.category])
                 /\ HasParent(catMeta[last.category])
                 /\ HasTemplates(catMeta[last.category])
                 /\ GetKey(catMeta[last.category], last.key) # ""
           THEN [last EXCEPT !.op = "found", !.calls = @ + 1,
                             !.examined = Append(@, last.category),
                             !.result = catMeta[last.category].tpl[last.key]]
         ELSE [last EXCEPT !.calls = @ + 1,
                           !.examined = Append(@, last.category),
                           !.category = walk_up(last.category)]
    /\ UNCHANGED <<settings, partMeta, catMeta, writes>>

NextWalk ==
    \/ FindTemplate
    \/ FindCategoryTemplate

SpecWalk == Init /\ [][NextWalk]_vars

\* a call that has been made runs
SpecWalkFair == SpecWalk /\ WF_vars(FindCategoryTemplate)

\* ================================================================== claims

\* the non-empty template a metadata blob stores for key, "" when it stores
\* none
Stored(m, key) ==
    IF m.shape = "templates" /\ key \in DOMAIN m.tpl THEN m.tpl[key] ELSE ""

RECURSIVE Ancestors(_)
\* the category, its parent, ..., the root
Ancestors(c) == IF c = NoCategory THEN <<>> ELSE <<c>> \o Ancestors(ParentOf(c))

\* the templates stored for key along part, part.category, ..., root
ChainTemplates(pm, cm, p, key) ==
    LET above == Ancestors(CategoryOf(p)) IN
    <<Stored(pm[p], key)>> \o [i \in 1..Len(above) |-> Stored(cm[above[i]], key)]

\* the places of the chain that store a non-empty template for key
Matches(pm, cm, p, key) ==
    LET found == ChainTemplates(pm, cm, p, key) IN
    {i \in 1..Len(found) : found[i] # ""}

Least(S) == CHOOSE i \in S : \A j \in S : i <= j

FirstMatch(pm, cm, p, key, d) ==
    LET found == ChainTemplates(pm, cm, p, key)
        places == {i \in 1..Len(found) : found[i] # ""}
    IN IF places = {} THEN d ELSE found[Least(places)]

\* the chain as entities, in step with ChainTemplates
ChainEntities(p) ==
    LET above == Ancestors(CategoryOf(p)) IN
    <<[entity |-> "part", pk |-> p]>> \o
        [i \in 1..Len(above) |-> [entity |-> "category", pk |-> above[i]]]

\* the nearest entity of the chain that stores a template for key
Nearest(pm, cm, p, key) ==
    LET places == Matches(pm, cm, p, key) IN
    IF places = {} THEN [entity |-> "none", pk |-> 0]
    ELSE ChainEntities(p)[Least(places)]

ClaimKeys == {"description", "category", "bogus"}
ClaimDefaults == {"d1", ""}

IsContextCall == last.op \in {"add_context", "get_context"}

\* no request is changing the database: the plugin is between calls or a
\* context callback has just resolved templates (every database state is
\* met this way)
Resolving == last.op = "idle" \/ IsContextCall

\* C1: for every part, key and default, resolution returns the template of
\* the first entity of the chain part, category, parent, ..., root that
\* stores a non-empty template for the key (both implementations).
C1_FirstMatch ==
    Resolving =>
        \A p \in Parts, key \in ClaimKeys, d \in ClaimDefaults :
            LET first == FirstMatch(partMeta, catMeta, p, key, d) IN
            /\ find_template(partMeta, catMeta, p, key, d) = first
            /\ PropertyContext_find_template(partMeta, catMeta, p, key, d) = first

\* a part's own template shadowed a different one on an ancestor in a
\* context callback
C1_Witness ==
    /\ last.op = "add_context"
    /\ last.instance.type = "Part"
    /\ last.context.kind = "dict"
    /\ \E i \in Matches(partMeta, catMeta, last.instance.pk, "description") :
          /\ i > 1
          /\ ChainTemplates(partMeta, catMeta, last.instance.pk, "description")[i]
                 # Stored(partMeta[last.instance.pk], "description")
    /\ Stored(partMeta[last.instance.pk], "description") # ""
    /\ "description" \in DOMAIN last.context.values
    /\ last.context.values["description"]
           = Render(last.instance.pk, NoStock,
                    Stored(partMeta[last.instance.pk], "description"))

\* C2: when no entity of the chain stores a non-empty template for the key,
\* resolution returns exactly the default it was given.
C2_DefaultWhenNone ==
    Resolving =>
        \A p \in Parts, key \in ClaimKeys, d \in ClaimDefaults :
            Matches(partMeta, catMeta, p, key) = {} =>
                /\ find_template(partMeta, catMeta, p, key, d) = d
                /\ PropertyContext_find_template(partMeta, catMeta, p, key, d) = d

\* a categorised part with nothing stored along its chain got the slot's
\* default rendered by PropertyContext
C2_Witness ==
    /\ last.op = "get_context"
    /\ last.instance.type = "Part"
    /\ CategoryOf(last.instance.pk) # NoCategory
    /\ Matches(partMeta, catMeta, last.instance.pk, "description") = {}
    /\ last.context.kind = "dict"
    /\ \E n \in SlotNumbers :
          /\ SettingKey(n) = "description"
          /\ last.context.values["description"]
                 = Render(last.instance.pk, NoStock, SettingTemplate(n))

\* the entity a set_template request names
RequestMeta(pm, cm) ==
    IF last.entity = "part" THEN pm[last.pk] ELSE cm[last.pk]

\* C3: after set_template returned 'ok' for a non-empty template t, the
\* entity stores t under the key, and every part whose nearest
\* template-bearing entity for the key is that entity resolves the key to t.
C3_SetThenResolve ==
    (last.op = "set_template" /\ last.status = "ok" /\ last.template # "") =>
        /\ Stored(RequestMeta(partMeta, catMeta), last.key) = last.template
        /\ \A p \in Parts, d \in ClaimDefaults :
              Nearest(partMeta, catMeta, p, last.key)
                  = [entity |-> last.entity, pk |-> last.pk]
              => find_template(partMeta, catMeta, p, last.key, d) = last.template

\* a template was set on a category that is not the part's own category and
\* a part below it resolves to it
C3_Witness ==
    /\ last.op = "set_template" /\ last.status = "ok" /\ last.template # ""
    /\ last.entity = "category"
    /\ \E p \in Parts :
          /\ CategoryOf(p) # NoCategory
          /\ CategoryOf(p) # last.pk
          /\ Nearest(partMeta, catMeta, p, last.key)
                 = [entity |-> "category", pk |-> last.pk]
          /\ find_template(partMeta, catMeta, p, last.key, "d1") = last.template

\* the view on which the panel of the entity of a set_template request shows
RequestView ==
    [type |-> IF last'.entity = "part" THEN "PartDetail" ELSE "CategoryDetail",
     pk |-> last'.pk]

\* resolution of key for the entity of the request, after the request
ResolvedAfter(key, d) ==
    IF last'.entity = "part"
    THEN find_template(partMeta', catMeta', last'.pk, key, d)
    ELSE find_category_template(catMeta', last'.pk, key, d)

\* C4: a set_template request with an empty template leaves the entity
\* without a template of its own for the key, changes nothing and saves
\* nothing when none was stored, and afterwards the key resolves, for that
\* entity, to the inherited_template the panel showed before the request.
C4_RemoveFallsBack ==
    [][(last'.op = "set_template" /\ last'.template = "" /\ last'.status = "ok") =>
          /\ Stored(IF last'.entity = "part" THEN partMeta'[last'.pk]
                    ELSE catMeta'[last'.pk], last'.key) = ""
          /\ Stored(IF last'.entity = "part" THEN partMeta[last'.pk]
                    ELSE catMeta[last'.pk], last'.key) = ""
                => UNCHANGED <<partMeta, catMeta, writes>>
          /\ \A n \in SlotNumbers :
                SettingKey(n) = last'.key =>
                    ResolvedAfter(last'.key, SettingTemplate(n))
                        = PanelEntry(RequestView, n).inherited_template
      ]_vars

\* a part's own template was removed and the key now resolves to a template
\* stored on an ancestor category
C4_Witness ==
    /\ last.op = "set_template" /\ last.template = "" /\ last.status = "ok"
    /\ last.saved
    /\ last.entity = "part"
    /\ Stored(partMeta[last.pk], last.key) = ""
    /\ Matches(partMeta, catMeta, last.pk, last.key) # {}
    /\ find_template(partMeta, catMeta, last.pk, last.key, "d1") # "d1"

\* C5: a stored template changes only when EDITING permits editing for the
\* requesting user: EDITING is 'always', or it is 'superuser' and the user
\* is a superuser.
C5_EditingGuardsChange ==
    [][(partMeta' # partMeta \/ catMeta' # catMeta) =>
          \/ settings.EDITING = "always"
          \/ settings.EDITING = "superuser" /\ last'.superuser
      ]_vars

\* C6: a set_template request without the template parameter, with an
\* entity type other than part or category, or with a key equal to none of
\* T1_KEY..T5_KEY returns status 'error' and leaves the persisted metadata
\* unchanged.
C6_BadRequestIsError ==
    [][(/\ last'.op = "set_template"
        /\ \/ last'.template = NoParam
           \/ last'.entity \notin {"part", "category"}
           \/ \A n \in SlotNumbers : last'.key # SettingKey(n))
       => /\ last'.status = "error"
          /\ UNCHANGED <<partMeta, catMeta>>
      ]_vars

\* C7: a set_template request whose pk matches no part (entity part) or no
\* category (entity category) returns the status 'error' result 'Could not
\* locate ...' and changes nothing.
C7_UnknownPkIsError ==
    [][(/\ last'.op = "set_template"
        /\ last'.template # NoParam
        /\ \/ last'.entity = "part" /\ last'.pk \notin Parts
           \/ last'.entity = "category" /\ last'.pk \notin Cats)
       => /\ last'.status = "error"
          /\ last'.message = "Could not locate"
          /\ UNCHANGED <<partMeta, catMeta>>
      ]_vars

\* the part a context callback works on, NoPart when there is none
ContextPart ==
    IF last.instance.type = "Part" THEN last.instance.pk
    ELSE IF last.instance.type = "StockItem" THEN StockPart(last.instance.pk)
    ELSE IF last.instance.type = "int" /\ last.instance.pk \in Parts
    THEN last.instance.pk
    ELSE NoPart

ContextStock ==
    IF last.instance.type = "StockItem" THEN last.instance.pk ELSE NoStock

ConfiguredSlots == {n \in SlotNumbers : SettingKey(n) # ""}

\* the slots whose resolved template does not render for the part
FailingSlots(p) ==
    {n \in ConfiguredSlots :
        RenderRaises(FirstMatch(partMeta, catMeta, p, SettingKey(n), SettingTemplate(n)))}

\* C8: after a context callback for a Part or StockItem, part_templates is
\* either a mapping with exactly one rendered string per configured
\* non-empty key, or, when a slot fails to render, a mapping with only an
\* 'error' entry naming the key of the first failing slot in the order
\* T1..T5.
C8_AllOrNothing ==
    (IsContextCall /\ ContextPart # NoPart) =>
        /\ ~last.raised
        /\ IF FailingSlots(ContextPart) = {}
           THEN /\ last.context.kind = "dict"
                /\ DOMAIN last.context.values = {SettingKey(n) : n \in ConfiguredSlots}
                /\ \A key \in DOMAIN last.context.values :
                      \E n \in ConfiguredSlots :
                          /\ SettingKey(n) = key
                          /\ last.context.values[key]
                                 = Render(ContextPart, ContextStock,
                                          FirstMatch(partMeta, catMeta, ContextPart,
                                                     key, SettingTemplate(n)))
           ELSE /\ last.context.kind = "error_dict"
                /\ last.context.values = EmptyDict
                /\ last.context.key = SettingKey(Least(FailingSlots(ContextPart)))

\* a stock item's callback ended with only the error of a slot that is not
\* the first configured one: the earlier result was discarded
C8_Witness ==
    /\ last.op = "add_context"
    /\ last.instance.type = "StockItem"
    /\ last.context.kind = "error_dict"
    /\ FailingSlots(ContextPart) # {}
    /\ Least(FailingSlots(ContextPart)) > Least(ConfiguredSlots)
    /\ Cardinality(FailingSlots(ContextPart)) < Cardinality(ConfiguredSlots)

\* C9: a context callback given something that is neither a Part nor a
\* StockItem (or a pk of no part) completes without raising and leaves
\* part_templates a mapping with an 'error' entry.
C9_UnsupportedIsErrorMapping ==
    (IsContextCall /\ ContextPart = NoPart) =>
        /\ ~last.raised
        /\ last.context.kind = "error_dict"

\* editing is permitted, in the words of the settings
EditPermitted(superuser, view) ==
    /\ \/ settings.EDITING = "always"
       \/ settings.EDITING = "superuser" /\ superuser
    /\ view.type \in {"PartDetail", "CategoryDetail"}

\* viewing is permitted, in the words of the settings
ViewPermitted(superuser, view) ==
    /\ \/ settings.VIEWING = "always"
       \/ settings.VIEWING = "superuser" /\ superuser
    /\ view.type \in {"PartDetail", "StockItemDetail"}

Bracketed(string) ==
    /\ Len(string) >= 2
    /\ string[1] = "["
    /\ string[Len(string)] = "]"

\* the rules of a list applied in list order, each to the output of the
\* previous one
RECURSIVE ApplyInOrder(_, _)
ApplyInOrder(rules, string) ==
    IF rules = <<>> THEN string
    ELSE ApplyInOrder(Tail(rules),
             re_sub(Head(rules).pattern, Head(rules).replacement, string))

\* what is wrong with a rule, "" when nothing is
FaultOf(rule) ==
    IF "pattern" \notin DOMAIN rule THEN "pattern"
    ELSE IF "replacement" \notin DOMAIN rule THEN "replacement"
    ELSE IF re_error(rule.pattern) THEN "regex"
    ELSE ""

FaultyRules(rules) == {i \in 1..Len(rules) : FaultOf(rules[i]) # ""}

\* the configuration a scrub call works with: the cached one while it
\* lasts, else the file
ConfigInForce == IF Truthy(last.cached) THEN last.cached ELSE last.file

\* the scrub call got as far as the rule sets
ScrubHasFilters ==
    /\ last.op = "scrub"
    /\ last.name # ""
    /\ ConfigInForce.kind = "dict"
    /\ ConfigInForce.has_filters

OwnRules == ConfigInForce.filters[last.name]
GlobalRules ==
    IF GlobalName \in DOMAIN ConfigInForce.filters
      THEN ConfigInForce.filters[GlobalName] ELSE <<>>

\* C11: for a filter name that has a rule set (all rules well formed), scrub
\* returns the input transformed by every rule of that rule set in list
\* order, then by every rule of the '_GLOBAL' rule set, when present, in
\* list order.
C11_RulesInOrderThenGlobal ==
    (/\ ScrubHasFilters
     /\ last.name \in DOMAIN ConfigInForce.filters
     /\ FaultyRules(OwnRules) = {}
     /\ FaultyRules(GlobalRules) = {})
    => last.result = ApplyInOrder(GlobalRules, ApplyInOrder(OwnRules, last.scrub_string))

\* a scrub with two different own rules and a '_GLOBAL' rule set, whose
\* result is neither what the own rules alone nor what '_GLOBAL' alone give
C11_Witness ==
    /\ ScrubHasFilters
    /\ last.name \in DOMAIN ConfigInForce.filters
    /\ last.name # GlobalName
    /\ FaultyRules(OwnRules) = {}
    /\ FaultyRules(GlobalRules) = {}
    /\ Len(OwnRules) = 2
    /\ GlobalRules # <<>>
    /\ last.result # ApplyInOrder(OwnRules, last.scrub_string)
    /\ last.result # ApplyInOrder(GlobalRules, last.scrub_string)
    /\ last.result # ApplyInOrder(GlobalRules,
                         ApplyInOrder(<<OwnRules[2], OwnRules[1]>>, last.scrub_string))

Cuts(arg) ==
    {i \in 1..Len(arg) : arg[i] = "|" /\ (i = 1 \/ arg[i - 1] # "\\")}

\* the k-th smallest member of a set of numbers
NthOf(S, k) == CHOOSE c \in S : Cardinality({d \in S : d < c}) = k - 1

\* the k-th part of arg between the cuts
Piece(arg, k) ==
    SubSeq(arg,
           IF k = 1 THEN 1 ELSE NthOf(Cuts(arg), k - 1) + 1,
           IF k = Cardinality(Cuts(arg)) + 1 THEN Len(arg)
           ELSE NthOf(Cuts(arg), k) - 1)

\* a part with the backslash of every "\|" taken out
Unescaped(part) ==
    LET keep == {i \in 1..Len(part) :
                    ~(part[i] = "\\" /\ i < Len(part) /\ part[i + 1] = "|")}
    IN [j \in 1..Cardinality(keep) |-> part[NthOf(keep, j)]]

\* source from position i on with every occurrence of match replaced
RECURSIVE ReplacedFrom(_, _, _, _)
ReplacedFrom(source, match, repl, i) ==
    IF i > Len(source) THEN (IF match = <<>> THEN repl ELSE <<>>)
    ELSE IF match = <<>>
      THEN repl \o <<source[i]>> \o ReplacedFrom(source, match, repl, i + 1)
    ELSE IF /\ i + Len(match) - 1 <= Len(source)
            /\ SubSeq(source, i, i + Len(match) - 1) = match
      THEN repl \o ReplacedFrom(source, match, repl, i + Len(match))
    ELSE <<source[i]>> \o ReplacedFrom(source, match, repl, i + 1)

InspectDone == last.op = "explored" /\ ~last.raised

Nodes == 1..Len(last.nodes)

ChildrenOf(n) == {last.nodes[n].children[i] : i \in 1..Len(last.nodes[n].children)}

\* the node that has n among its children
ParentNode(n) == CHOOSE p \in Nodes : n \in ChildrenOf(p)

\* the number of levels n lies below the base node
RECURSIVE LevelOf(_)
LevelOf(n) == IF n = BaseNode THEN 0 ELSE 1 + LevelOf(ParentNode(n))

\* the nodes on the way from n up to the base node, n left out
RECURSIVE AncestorsOf(_)
AncestorsOf(n) ==
    IF n = BaseNode THEN {}
    ELSE {ParentNode(n)} \cup AncestorsOf(ParentNode(n))

\* the members of an object that the options do not leave out
ShownMembers(obj) ==
    {j \in 1..Len(last.heap[obj].members) :
        LET value == last.heap[obj].members[j] IN
        /\ last.options.methods \/ ~(value \in Objs /\ last.heap[value].kind = "method")
        /\ last.options.none \/ value # NoneRef}

LimitedClasses == {"InspectDict", "InspectList", "InspectSet", "InspectQuerySet"}

\* C14: for depth option d >= 0 no node of the inspection tree lies more
\* than d levels below the root, and a node at level d has no children; a
\* dict, list, set or query-set node at that level still reports the number
\* of its members as total_children.
C14_DepthLimit ==
    InspectDone =>
       \A n \in Nodes :
          /\ LevelOf(n) <= last.options.depth
          /\ LevelOf(n) = last.options.depth =>
                /\ last.nodes[n].children = <<>>
                /\ last.nodes[n].cls \in {"InspectDict", "InspectList", "InspectSet"} =>
                      last.nodes[n].total_items =
                          Cardinality(ShownMembers(last.nodes[n].obj))
                /\ last.nodes[n].cls = "InspectQuerySet" =>
                      last.nodes[n].total_items =
                          Len(last.heap[last.nodes[n].obj].members)

\* a finished inspection with a container at the deepest level allowed,
\* below the root, that has members and shows none
C14_Witness ==
    /\ InspectDone
    /\ last.options.depth >= 1
    /\ \E n \in Nodes :
          /\ LevelOf(n) = last.options.depth
          /\ last.nodes[n].cls \in LimitedClasses
          /\ last.nodes[n].total_items > 0
          /\ last.nodes[n].children = <<>>

\* C15: every dict, list, set and query-set node has at most 'lists'
\* children, and its total_children is never smaller than the number of
\* children it shows.
C15_ItemLimit ==
    last.op \in {"explore", "explored"} =>
       \A n \in Nodes :
          last.nodes[n].cls \in LimitedClasses =>
             /\ Len(last.nodes[n].children) <= last.options.lists
             /\ last.nodes[n].total_items >= Len(last.nodes[n].children)

\* a finished inspection with a container that shows as many children as
\* the limit allows and has more
C15_Witness ==
    /\ InspectDone
    /\ last.options.lists >= 1
    /\ \E n \in Nodes :
          /\ last.nodes[n].cls \in LimitedClasses
          /\ Len(last.nodes[n].children) = last.options.lists
          /\ last.nodes[n].total_items > last.options.lists

\* C16: within one inspection each object that is not simple, the explored
\* root included, gets a full node at most once; every other occurrence is
\* a childless InspectDuplicate node.
C16_ExpandedOnce ==
    InspectDone =>
       \A obj \in Objs :
          /\ Cardinality({n \in Nodes : /\ last.nodes[n].obj = obj
                                        /\ last.nodes[n].cls # "InspectDuplicate"}) <= 1
          /\ \A n \in Nodes :
                (last.nodes[n].obj = obj /\ last.nodes[n].cls = "InspectDuplicate")
                => last.nodes[n].children = <<>>

\* C17: building the inspection tree terminates: an inspection that has
\* started gets to the end of InspectionManager.__init__.
C17_BuildTerminates == (last.op = "explore") ~> (last.op = "explored")

\* a finished inspection of a graph with a reference cycle: a node whose
\* object is the object of one of its ancestors
C17_Witness ==
    /\ InspectDone
    /\ \E n \in Nodes :
          \E a \in AncestorsOf(n) : last.nodes[a].obj = last.nodes[n].obj

\* ---- the category walk

\* the walk is under way or over
Walking == last.op \in {"find_category_template", "found"}

\* what holds of every walk so far: no more calls than the part's category
\* has ancestors (itself included) plus one, no category examined twice,
\* and a result that is a template stored on the chain or the default
WalkBound ==
    Walking =>
       LET chain == Ancestors(CategoryOf(last.part)) IN
       /\ last.calls <= Len(chain) + 1
       /\ \A i, j \in 1..Len(last.examined) :
             last.examined[i] = last.examined[j] => i = j
       /\ \A i \in 1..Len(last.examined) :
             \E k \in 1..Len(chain) : chain[k] = last.examined[i]
       /\ last.op = "found" =>
             \/ last.result = last.default_template
             \/ last.result # "" /\ last.result = Stored(partMeta[last.part], last.key)
             \/ \E k \in 1..Len(chain) :
                   last.result # "" /\ last.result = Stored(catMeta[chain[k]], last.key)

\* C18: the category walk terminates, examining each ancestor category at
\* most once, in at most chain-length + 1 calls, and returns a stored
\* template or the default.
C18_WalkTerminates ==
    /\ []WalkBound
    /\ (last.op = "find_category_template") ~> (last.op = "found")

\* a walk that examined a chain of at least two categories to its end
\* and returned the default
C18_Witness ==
    /\ last.op = "found"
    /\ Len(Ancestors(CategoryOf(last.part))) >= 2
    /\ last.calls = Len(Ancestors(CategoryOf(last.part))) + 1
    /\ Len(last.examined) = Len(Ancestors(CategoryOf(last.part)))
    /\ last.result = last.default_template

====
